---- MODULE Spec2Model ----
(***************************************************************************)
(* Model of app.py of meta_report_service: process_data (the metrics       *)
(* aggregation over the fetched campaign records) and the /generate-report *)
(* request handler (fetch, process, render PDF, send email).               *)
(*                                                                         *)
(* Numbers.  A decimal (spend, a purchase value, ...) is an integer count  *)
(* of 1/Scale units, so 3 is 1.5 when Scale = 2.  An integer column        *)
(* (impressions, clicks, conversions) holds whole numbers.  A float that a *)
(* division produces is a tagged record: a reduced fraction, or one of     *)
(* NaN, +inf, -inf, which is what pandas' true division yields for a zero  *)
(* denominator.                                                            *)
(*                                                                         *)
(* Loosely-typed JSON.  A field of a raw record is a tagged value:         *)
(* "absent" (the key is missing: a NaN cell of the DataFrame), "bad" (a    *)
(* string that does not parse as a number), "num" (a number or a numeric   *)
(* string), "str" (a string), "list" (a list of entries), "notlist"        *)
(* (any value that is not a list).                                         *)
(***************************************************************************)
EXTENDS Integers, Sequences, FiniteSets, TLC

VARIABLES raw_data, status, branch, df, result, pc, data, metrics, report_file, emailed, response, steps

vars == <<raw_data, status, branch, df, result, pc, data, metrics, report_file, emailed, response, steps>>

aggVars == <<raw_data, status, branch, df, result>>

reqVars == <<pc, data, metrics, report_file, emailed, response, steps>>

\* ------------------------------------------------------------------ bounds
\* The longest input sequence of records.
MaxRecords == 2

\* Decimals are counted in units of 1/Scale.
Scale == 2

\* The percentage factor of ctr and conversion_rate.
Hundred == 100

\* The HTTP status of the error response.
HttpError == 500

\* ------------------------------------------------------------ JSON values
Absent == [t |-> "absent", v |-> 0]

Bad == [t |-> "bad", v |-> 0]

Num(n) == [t |-> "num", v |-> n]

AbsentS == [t |-> "absent", v |-> ""]

Str(s) == [t |-> "str", v |-> s]

AbsentL == [t |-> "absent", v |-> <<>>]

NotList == [t |-> "notlist", v |-> <<>>]

List(s) == [t |-> "list", v |-> s]

Item(ty, val) == [action_type |-> ty, value |-> val]

\* ----------------------------------------------------------------- floats
Abs(n) == IF n < 0 THEN -n ELSE n

RECURSIVE GCD(_, _)
GCD(a, b) == IF b = 0 THEN a ELSE GCD(b, a % b)

NaN == [k |-> "nan", num |-> 0, den |-> 1]

PosInf == [k |-> "inf", num |-> 0, den |-> 1]

NegInf == [k |-> "ninf", num |-> 0, den |-> 1]

\* The finite float n/d (d # 0), as a reduced fraction with a positive
\* denominator, so that equal floats are equal records.
Fin(n, d) ==
    LET g == GCD(Abs(n), Abs(d))
        s == IF d < 0 THEN -1 ELSE 1
    IN  [k |-> "fin", num |-> (s * n) \div g, den |-> (s * d) \div g]

Zero == Fin(0, 1)

\* Float true division n / d of numpy: x/0 is +-inf, 0/0 is NaN.
TrueDiv(n, d) ==
    IF d # 0 THEN Fin(n, d)
    ELSE IF n = 0 THEN NaN
    ELSE IF n > 0 THEN PosInf ELSE NegInf

\* Series.replace([inf, -inf], 0)
ReplaceInf(f) == IF f.k \in {"inf", "ninf"} THEN Zero ELSE f

\* Series.fillna(0) on a float column
FillNa(f) == IF f.k = "nan" THEN Zero ELSE f

\* a < b on finite floats
FloatLess(a, b) == a.num * b.den < b.num * a.den

\* astype(int) of a decimal: truncation toward zero
AsInt(u) == IF u >= 0 THEN u \div Scale ELSE -((-u) \div Scale)

\* ----------------------------------------------------------------- inputs
\* The campaign names of the model, in the sorted order groupby yields.
NameOrder == <<"A", "B">>

NameValues == {Str(NameOrder[i]) : i \in 1..Len(NameOrder)} \cup {AbsentS}

\* (spend, impressions, clicks) of a record.
NumProfiles ==
    { <<Num(2 * Scale), Num(5 * Scale), Num(2 * Scale)>>,
      <<Num(0), Num(0), Num(0)>>,
      <<Num(-2 * Scale), Num(5 * Scale), Num(0)>>,
      <<Bad, Absent, Num(2 * Scale + 1)>> }

Purchase(n) == Item(Str("purchase"), Num(n))

\* (actions, action_values) of a record.
ActProfiles ==
    { <<List(<<Purchase(Scale + 1)>>), List(<<Purchase(4 * Scale)>>)>>,
      <<AbsentL, NotList>>,
      <<List(<<Item(Str("link_click"), Num(9 * Scale)), Purchase(2 * Scale + 1), Purchase(7 * Scale)>>),
        List(<<Purchase(2 * Scale), Purchase(6 * Scale)>>)>>,
      <<List(<<Item(Str("link_click"), Num(3 * Scale))>>), List(<<>>)>>,
      <<List(<<Item(Str("purchase"), Bad)>>), List(<<Item(AbsentS, Num(Scale))>>)>> }

Records ==
    { [campaign_name |-> n, spend |-> p[1], impressions |-> p[2], clicks |-> p[3],
       actions |-> a[1], action_values |-> a[2]] :
      n \in NameValues, p \in NumProfiles, a \in ActProfiles }

Inputs == UNION { [1..n -> Records] : n \in 0..MaxRecords }

\* ----------------------------------------------------- process_data: cells
\* pd.DataFrame(raw_data)[col] exists when some record carries the key; a
\* record without the key gets a NaN cell.  df[col] of no column: KeyError.
HasColumn(raw, col) == \E i \in 1..Len(raw) : raw[i][col].t # "absent"

\* pd.to_numeric(cell, errors='coerce'): NaN unless the cell parses.
ToNumeric(x) == IF x.t = "num" THEN [k |-> "val", v |-> x.v] ELSE [k |-> "nan", v |-> 0]

\* .fillna(0) of a numeric cell
FillNaCell(c) == IF c.k = "nan" THEN 0 ELSE c.v

\* df['spend']: to_numeric, fillna(0), astype(float)
CoerceFloat(x) == FillNaCell(ToNumeric(x))

\* df['impressions'], df['clicks']: to_numeric, fillna(0), astype(int)
CoerceInt(x) == AsInt(FillNaCell(ToNumeric(x)))

Val(n) == [k |-> "val", v |-> n]

Raise == [k |-> "raise", v |-> 0]

RECURSIVE SumPurchases(_)
\* every purchase entry added up, where the code stops at the first
SumPurchases(x) ==
    IF x = <<>> THEN Val(0)
    ELSE LET item == Head(x)
             rest == SumPurchases(Tail(x))
         IN  IF item.action_type.t = "absent" \/ rest.k = "raise" THEN Raise
             ELSE IF item.action_type.v = "purchase"
                  THEN (IF item.value.t = "num" THEN Val(item.value.v + rest.v) ELSE Raise)
                  ELSE rest

\* next((float(item['value']) for item in x if item['action_type'] == 'purchase'), 0):
\* the entries are visited in order up to the first purchase; item['action_type']
\* of an entry without the key is a KeyError, float() of a value that is
\* missing or not numeric is a KeyError or ValueError.
RECURSIVE FirstPurchase(_)
FirstPurchase(x) ==
    IF x = <<>> THEN Val(0)
    ELSE LET item == Head(x) IN
         IF item.action_type.t = "absent" THEN Raise
         ELSE IF item.action_type.v = "purchase"
              THEN (IF item.value.t = "num" THEN Val(item.value.v) ELSE Raise)
              ELSE FirstPurchase(Tail(x))

\* the lambda applied to one cell: ... if isinstance(x, list) else 0
Extract(cell) == IF cell.t = "list" THEN FirstPurchase(cell.v) ELSE Val(0)

\* One row of df after lines 79-91.
Row(r) ==
    [campaign_name |-> r.campaign_name,
     spend         |-> CoerceFloat(r.spend),
     impressions   |-> CoerceInt(r.impressions),
     clicks        |-> CoerceInt(r.clicks),
     conversions   |-> AsInt(Extract(r.actions).v),
     sales         |-> Extract(r.action_values).v]

Frame(raw) == [i \in 1..Len(raw) |-> Row(raw[i])]

\* The exceptions of lines 76-113: a column that no record carries, an entry
\* that the extraction cannot read.
Raises(raw) ==
    \/ \E col \in {"spend", "impressions", "clicks", "actions", "action_values", "campaign_name"} :
           ~HasColumn(raw, col)
    \/ \E i \in 1..Len(raw) :
           \/ Extract(raw[i].actions).k = "raise"
           \/ Extract(raw[i].action_values).k = "raise"

\* ------------------------------------------------ process_data: aggregates
RECURSIVE SumCol(_, _)
\* df[col].sum()
SumCol(rows, col) ==
    IF rows = <<>> THEN 0 ELSE rows[1][col] + SumCol(Tail(rows), col)

\* n / d if d > 0 else 0 (lines 101-104)
SafeRatio(n, d) == IF d > 0 THEN TrueDiv(n, d) ELSE Zero

\* (n / d).replace([inf, -inf], 0).fillna(0) (lines 116-119)
CampaignRatio(n, d) == FillNa(ReplaceInf(TrueDiv(n, d)))

\* The group keys of df.groupby('campaign_name'): the names that occur, sorted;
\* a NaN key (a record without campaign_name) forms no group.
GroupKeys(rows) ==
    SelectSeq(NameOrder, LAMBDA n : \E i \in 1..Len(rows) : rows[i].campaign_name = Str(n))

\* a group reduced to its first record, as agg 'first' would
GroupFirst(rows, n) == SubSeq(SelectSeq(rows, LAMBDA r : r.campaign_name = Str(n)), 1, 1)

\* The rows of one group.
Group(rows, n) == SelectSeq(rows, LAMBDA r : r.campaign_name = Str(n))

\* One row of campaign_summary: the sums of lines 107-113 and the ratios of
\* lines 116-119.
SummaryRow(rows, n) ==
    LET g           == Group(rows, n)
        spend       == SumCol(g, "spend")
        sales       == SumCol(g, "sales")
        impressions == SumCol(g, "impressions")
        clicks      == SumCol(g, "clicks")
        conversions == SumCol(g, "conversions")
    IN  [campaign_name   |-> n,
         spend           |-> spend,
         sales           |-> sales,
         impressions     |-> impressions,
         clicks          |-> clicks,
         conversions     |-> conversions,
         roas            |-> CampaignRatio(sales, spend),
         cpa             |-> CampaignRatio(spend, Scale * conversions),
         ctr             |-> CampaignRatio(Hundred * clicks, impressions),
         conversion_rate |-> CampaignRatio(Hundred * conversions, clicks)]

campaign_summary(rows) ==
    LET keys == GroupKeys(rows)
    IN  [j \in 1..Len(keys) |-> SummaryRow(rows, keys[j])]

\* the threshold taken inclusive: roas >= 1
high_roas_inclusive(cs) == SelectSeq(cs, LAMBDA r : ~FloatLess(r.roas, Fin(1, 1)))

\* campaign_summary[campaign_summary['roas'] > 1]
high_roas_campaigns(cs) == SelectSeq(cs, LAMBDA r : FloatLess(Fin(1, 1), r.roas))

\* the filter of lines 123-127, before the sort
ActiveFilter(cs) ==
    SelectSeq(cs, LAMBDA r : r.impressions > 0 \/ r.clicks > 0 \/ r.conversions > 0)

\* .sort_values(by='roas', ascending=False): the default kind is quicksort,
\* which pandas documents as not stable, so the rows come out in any order
\* that is non-increasing in roas.
SortOutcomes(rows) ==
    LET n     == Len(rows)
        perms == {p \in [1..n -> 1..n] : \A i, j \in 1..n : i # j => p[i] # p[j]}
        byP(p) == [i \in 1..n |-> rows[p[i]]]
    IN  {byP(p) : p \in {q \in perms :
                           \A i \in 1..n : \A j \in 1..n :
                               i < j => ~FloatLess(rows[q[i]].roas, rows[q[j]].roas)}}

\* The result of lines 62-74.
EmptyResult ==
    [total_sales |-> 0, total_ad_spend |-> 0,
     overall_roas |-> Zero, overall_cpa |-> Zero, overall_ctr |-> Zero,
     overall_conversion_rate |-> Zero,
     total_impressions |-> 0, total_clicks |-> 0,
     campaign_summary |-> <<>>, high_roas_campaigns |-> <<>>, active_campaigns |-> <<>>]

\* The result of lines 93-141 for the frame rows, with the active view as sorted.
FullResult(rows, active) ==
    LET total_ad_spend    == SumCol(rows, "spend")
        total_sales       == SumCol(rows, "sales")
        total_impressions == SumCol(rows, "impressions")
        total_clicks      == SumCol(rows, "clicks")
        total_conversions == SumCol(rows, "conversions")
        cs                == campaign_summary(rows)
    IN  [total_sales |-> total_sales, total_ad_spend |-> total_ad_spend,
         overall_roas |-> SafeRatio(total_sales, total_ad_spend),
         overall_cpa |-> SafeRatio(total_ad_spend, Scale * total_conversions),
         overall_ctr |-> SafeRatio(Hundred * total_clicks, total_impressions),
         overall_conversion_rate |-> SafeRatio(Hundred * total_conversions, total_clicks),
         total_impressions |-> total_impressions, total_clicks |-> total_clicks,
         campaign_summary |-> cs,
         high_roas_campaigns |-> high_roas_campaigns(cs),
         active_campaigns |-> active]

\* the test written as raw_data is None, which no list satisfies
IsNoneInput(raw) == FALSE

\* if not raw_data (line 60)
IsEmptyInput(raw) == raw = <<>>

NoResult == [none |-> TRUE]

\* What a call process_data(raw) can end in: a returned result with the path
\* taken and the coerced frame, or an exception.
process_data(raw) ==
    IF IsEmptyInput(raw)
    THEN {[status |-> "ok", branch |-> "empty", df |-> <<>>, result |-> EmptyResult]}
    ELSE IF Raises(raw)
    THEN {[status |-> "raised", branch |-> "full", df |-> <<>>, result |-> NoResult]}
    ELSE {[status |-> "ok", branch |-> "full", df |-> Frame(raw),
           result |-> FullResult(Frame(raw), a)] :
          a \in SortOutcomes(ActiveFilter(campaign_summary(Frame(raw))))}

\* -------------------------------------------------- the aggregation alone
\* The requests in flight: app.run serves each request on a thread of its own.
Requests == {"r1", "r2"}

IdleReq ==
    /\ pc = [r \in Requests |-> "idle"]
    /\ data = [r \in Requests |-> <<>>]
    /\ metrics = [r \in Requests |-> NoResult]
    /\ report_file = <<>>
    /\ emailed = [r \in Requests |-> <<>>]
    /\ response = [r \in Requests |-> <<>>]
    /\ steps = [r \in Requests |-> <<>>]

Init ==
    /\ raw_data \in Inputs
    /\ status = "init" /\ branch = "none" /\ df = <<>> /\ result = NoResult
    /\ IdleReq

Return(o) ==
    /\ status' = o.status /\ branch' = o.branch /\ df' = o.df /\ result' = o.result
    /\ UNCHANGED <<raw_data, reqVars>>

\* process_data on an empty input (lines 60-74)
ProcessEmpty ==
    /\ status = "init"
    /\ \E o \in process_data(raw_data) : o.branch = "empty" /\ Return(o)

\* process_data ends in an exception
ProcessRaise ==
    /\ status = "init"
    /\ \E o \in process_data(raw_data) : o.status = "raised" /\ Return(o)

\* process_data returns the metrics of a non-empty input (lines 76-141)
ProcessFull ==
    /\ status = "init"
    /\ \E o \in process_data(raw_data) : o.status = "ok" /\ o.branch = "full" /\ Return(o)

Next == ProcessEmpty \/ ProcessRaise \/ ProcessFull

Spec == Init /\ [][Next]_vars

\* ------------------------------------------------- properties: helpers
Range(f) == {f[i] : i \in DOMAIN f}

\* the mathematical quotient n/d, and 0 for a zero denominator
Quot(n, d) == IF d = 0 THEN Zero ELSE Fin(n, d)

GreaterThanOne(f) == f.num > f.den

\* the integer part of the decimal u (units of 1/Scale), toward zero
Trunc(u) ==
    CHOOSE k \in -Abs(u)..Abs(u) :
        /\ Abs(k) * Scale <= Abs(u) /\ Abs(u) < (Abs(k) + 1) * Scale
        /\ (u >= 0 => k >= 0) /\ (u <= 0 => k <= 0)

\* the value of the first purchase entry of a field, 0 when there is none or
\* the field is no list
FirstPurchaseValue(x) ==
    LET idx == {j \in 1..Len(x.v) : x.v[j].action_type = Str("purchase")}
    IN  IF x.t # "list" \/ idx = {} THEN 0
        ELSE x.v[CHOOSE j \in idx : \A k \in idx : j <= k].value.v

RECURSIVE SumOver(_, _)
\* the sum of f[i] over the indices i in S
SumOver(S, f) ==
    IF S = {} THEN 0
    ELSE LET i == CHOOSE j \in S : TRUE IN f[i] + SumOver(S \ {i}, f)

\* the indices of the records carrying the campaign name n
Carrying(n) == {i \in 1..Len(raw_data) : raw_data[i].campaign_name = Str(n)}

Returned == status = "ok"

\* the total conversions of the frame (a local of process_data)
total_conversions == SumCol(df, "conversions")

\* --------------------------------------------------------------------- C1
\* C1: process_data is total: whatever the records hold, the call returns a
\* result and never raises, and a field that is missing or does not parse
\* contributes 0.
C1_Total ==
    /\ status # "raised"
    /\ (Returned /\ branch = "full") =>
           \A i \in 1..Len(raw_data) :
               /\ raw_data[i].spend.t # "num" => df[i].spend = 0
               /\ raw_data[i].impressions.t # "num" => df[i].impressions = 0
               /\ raw_data[i].clicks.t # "num" => df[i].clicks = 0
               /\ raw_data[i].actions.t # "list" => df[i].conversions = 0
               /\ raw_data[i].action_values.t # "list" => df[i].sales = 0

\* --------------------------------------------------------------------- C2
\* C2: in every result, per campaign and overall, a ratio with denominator 0
\* is exactly 0, and otherwise it is the quotient: roas = sales/spend,
\* cpa = spend/conversions, ctr = clicks/impressions*100,
\* conversion_rate = conversions/clicks*100.
C2_Ratios ==
    Returned =>
        /\ result.overall_roas = Quot(result.total_sales, result.total_ad_spend)
        /\ result.overall_cpa = Quot(result.total_ad_spend, Scale * total_conversions)
        /\ result.overall_ctr = Quot(Hundred * result.total_clicks, result.total_impressions)
        /\ result.overall_conversion_rate = Quot(Hundred * total_conversions, result.total_clicks)
        /\ \A r \in Range(result.campaign_summary) :
               /\ r.roas = Quot(r.sales, r.spend)
               /\ r.cpa = Quot(r.spend, Scale * r.conversions)
               /\ r.ctr = Quot(Hundred * r.clicks, r.impressions)
               /\ r.conversion_rate = Quot(Hundred * r.conversions, r.clicks)

\* --------------------------------------------------------------------- C3
\* C3: the spends of the rows of campaign_summary add up to total_ad_spend,
\* for any input, also one with a record without campaign_name.
C3_SpendConsistent ==
    Returned => SumCol(result.campaign_summary, "spend") = result.total_ad_spend

\* --------------------------------------------------------------------- C4
IsActive(r) == r.impressions > 0 \/ r.clicks > 0 \/ r.conversions > 0

\* C4: high_roas_campaigns holds exactly the rows of campaign_summary with
\* roas > 1; active_campaigns holds exactly the rows with impressions > 0 or
\* clicks > 0 or conversions > 0, ordered non-increasing by roas.
C4_Views ==
    Returned =>
        LET cs == result.campaign_summary
            hr == result.high_roas_campaigns
            ac == result.active_campaigns
        IN  /\ Range(hr) = {r \in Range(cs) : GreaterThanOne(r.roas)}
            /\ Len(hr) = Cardinality(Range(hr))
            /\ Range(ac) = {r \in Range(cs) : IsActive(r)}
            /\ Len(ac) = Cardinality(Range(ac))
            /\ \A i \in 1..Len(ac) : \A j \in 1..Len(ac) :
                   i < j => ac[i].roas.num * ac[j].roas.den >= ac[j].roas.num * ac[i].roas.den

\* Two campaigns, one of them above roas 1, both active, and the sort moved
\* the second row of the table to the front.
C4_Witness ==
    /\ Returned
    /\ Len(result.campaign_summary) = 2
    /\ Len(result.high_roas_campaigns) = 1
    /\ Len(result.active_campaigns) = 2
    /\ result.active_campaigns[1] = result.campaign_summary[2]
    /\ result.active_campaigns[1].roas # result.active_campaigns[2].roas

\* --------------------------------------------------------------------- C5
\* C5: per record, conversions is the value of the first purchase entry of
\* actions truncated to an integer (0 without such an entry or without a list),
\* sales is the value of the first purchase entry of action_values, not
\* truncated; the truncation precedes the summation, so a campaign's
\* conversions is the sum of the truncated values.
C5_FirstPurchase ==
    (Returned /\ branch = "full") =>
        /\ \A i \in 1..Len(raw_data) :
               /\ df[i].conversions = Trunc(FirstPurchaseValue(raw_data[i].actions))
               /\ df[i].sales = FirstPurchaseValue(raw_data[i].action_values)
        /\ \A r \in Range(result.campaign_summary) :
               /\ r.conversions =
                      SumOver(Carrying(r.campaign_name),
                              [i \in 1..Len(raw_data) |-> Trunc(FirstPurchaseValue(raw_data[i].actions))])
               /\ r.sales =
                      SumOver(Carrying(r.campaign_name),
                              [i \in 1..Len(raw_data) |-> FirstPurchaseValue(raw_data[i].action_values)])

\* Two records of one campaign: one with a fractional purchase value, one with
\* a non-purchase entry, a fractional purchase and a later purchase.  The
\* truncated values 1 and 2 add up to 3; the untruncated sum would be 4.
C5_Witness ==
    /\ Returned /\ Len(raw_data) = 2
    /\ raw_data[1].campaign_name = raw_data[2].campaign_name
    /\ raw_data[1].actions = List(<<Purchase(Scale + 1)>>)
    /\ Len(raw_data[2].actions.v) = 3 /\ Len(raw_data[2].action_values.v) = 2
    /\ Len(result.campaign_summary) = 1
    /\ result.campaign_summary[1].conversions = 3
    /\ df[2].sales = 2 * Scale

\* --------------------------------------------------------------------- C6
NonNegRow(r) ==
    /\ r.spend >= 0 /\ r.sales >= 0 /\ r.impressions >= 0 /\ r.clicks >= 0
    /\ r.conversions >= 0

\* C6: after coercion every numeric field of every record and of every result
\* row, and every total and ratio, is non-negative, for any input.
C6_NonNegative ==
    Returned =>
        /\ \A r \in Range(df) : NonNegRow(r)
        /\ \A r \in Range(result.campaign_summary) :
               /\ NonNegRow(r)
               /\ r.roas.num >= 0 /\ r.cpa.num >= 0 /\ r.ctr.num >= 0
               /\ r.conversion_rate.num >= 0
        /\ result.total_sales >= 0 /\ result.total_ad_spend >= 0
        /\ result.total_impressions >= 0 /\ result.total_clicks >= 0
        /\ result.overall_roas.num >= 0 /\ result.overall_cpa.num >= 0
        /\ result.overall_ctr.num >= 0 /\ result.overall_conversion_rate.num >= 0

\* --------------------------------------------------------------------- C7
\* C7: for an empty input process_data returns the totals and the four
\* overall ratios as 0 and the table and both views empty, on the early
\* path, with no frame coerced or grouped.
C7_EmptyInput ==
    (raw_data = <<>> /\ status # "init") =>
        /\ Returned /\ branch = "empty" /\ df = <<>>
        /\ result.total_sales = 0 /\ result.total_ad_spend = 0
        /\ result.total_impressions = 0 /\ result.total_clicks = 0
        /\ result.overall_roas = Zero /\ result.overall_cpa = Zero
        /\ result.overall_ctr = Zero /\ result.overall_conversion_rate = Zero
        /\ result.campaign_summary = <<>>
        /\ result.high_roas_campaigns = <<>>
        /\ result.active_campaigns = <<>>

C7_Witness == raw_data = <<>> /\ Returned /\ result.campaign_summary = <<>>

\* --------------------------------------------------------------------- C8
\* C8: campaign_summary has exactly one row per distinct campaign_name of the
\* input, and the row's spend, sales, impressions, clicks and conversions
\* are the sums of the field over exactly the records carrying that name.
C8_Grouping ==
    (Returned /\ branch = "full") =>
        LET cs    == result.campaign_summary
            names == {raw_data[i].campaign_name.v :
                        i \in {j \in 1..Len(raw_data) : raw_data[j].campaign_name.t = "str"}}
        IN  /\ \A n \in names : Cardinality({j \in 1..Len(cs) : cs[j].campaign_name = n}) = 1
            /\ \A j \in 1..Len(cs) : cs[j].campaign_name \in names
            /\ \A j \in 1..Len(cs) :
                   \A col \in {"spend", "sales", "impressions", "clicks", "conversions"} :
                       cs[j][col] =
                           SumOver(Carrying(cs[j].campaign_name),
                                   [i \in 1..Len(df) |-> df[i][col]])

\* Two records of campaign A with spend 2.0 each and one row of spend 4.0.
C8_Witness ==
    /\ Returned /\ Len(raw_data) = 2
    /\ raw_data[1].campaign_name = Str("A") /\ raw_data[2].campaign_name = Str("A")
    /\ df[1].spend = 2 * Scale /\ df[2].spend = 2 * Scale
    /\ Len(result.campaign_summary) = 1
    /\ result.campaign_summary[1].spend = 4 * Scale

\* --------------------------------------------------------------------- C9
TablePos(n) ==
    CHOOSE k \in 1..Len(result.campaign_summary) : result.campaign_summary[k].campaign_name = n

\* C9: the ordering of active_campaigns is stable: two active campaigns of
\* equal roas keep the relative order of their rows in campaign_summary.
C9_StableSort ==
    Returned =>
        LET ac == result.active_campaigns
        IN  \A i \in 1..Len(ac) : \A j \in 1..Len(ac) :
                (i < j /\ ac[i].roas = ac[j].roas) =>
                    TablePos(ac[i].campaign_name) < TablePos(ac[j].campaign_name)

\* ------------------------------------------------------- generate_report
\* What the ads API may return for the day: nothing, one campaign, another
\* campaign, a record whose purchase value is not numeric.
GoodRecord(n, a) ==
    [campaign_name |-> Str(n), spend |-> Num(2 * Scale), impressions |-> Num(5 * Scale),
     clicks |-> Num(2 * Scale), actions |-> a[1], action_values |-> a[2]]

FetchData ==
    { <<>>,
      <<GoodRecord("A", <<List(<<Purchase(Scale + 1)>>), List(<<Purchase(4 * Scale)>>)>>)>>,
      <<GoodRecord("B", <<List(<<Purchase(2 * Scale)>>), List(<<Purchase(2 * Scale)>>)>>)>>,
      <<GoodRecord("A", <<List(<<Item(Str("purchase"), Bad)>>), List(<<>>)>>)>> }

\* the except branch of generate_report (lines 403-410)
ErrorResponse == [status |-> "error", code |-> HttpError]

\* the return of the try branch (lines 398-402)
SuccessResponse == [status |-> "success"]

Fail(r) ==
    /\ pc' = [pc EXCEPT ![r] = "done"]
    /\ response' = [response EXCEPT ![r] = <<ErrorResponse>>]

Done(r, step) == steps' = [steps EXCEPT ![r] = Append(@, step)]

\* a GET /generate-report arrives (lines 389-392)
Request(r) ==
    /\ pc[r] = "idle"
    /\ pc' = [pc EXCEPT ![r] = "fetch"]
    /\ UNCHANGED <<data, metrics, report_file, emailed, response, steps, aggVars>>

\* data = fetch_meta_data() returns the records (lines 51-54)
FetchOk(r) ==
    /\ pc[r] = "fetch"
    /\ \E d \in FetchData : data' = [data EXCEPT ![r] = d]
    /\ pc' = [pc EXCEPT ![r] = "process"]
    /\ Done(r, "fetch")
    /\ UNCHANGED <<metrics, report_file, emailed, response, aggVars>>

\* fetch_meta_data raises (lines 55-57); generate_report answers 500
FetchFail(r) ==
    /\ pc[r] = "fetch"
    /\ Fail(r)
    /\ UNCHANGED <<data, metrics, report_file, emailed, steps, aggVars>>

\* metrics = process_data(data) returns (line 394)
ProcessOk(r) ==
    /\ pc[r] = "process"
    /\ \E o \in process_data(data[r]) :
           /\ o.status = "ok"
           /\ metrics' = [metrics EXCEPT ![r] = o.result]
    /\ pc' = [pc EXCEPT ![r] = "render"]
    /\ Done(r, "process")
    /\ UNCHANGED <<data, report_file, emailed, response, aggVars>>

\* process_data raises; generate_report answers 500
ProcessFail(r) ==
    /\ pc[r] = "process"
    /\ \E o \in process_data(data[r]) : o.status = "raised"
    /\ Fail(r)
    /\ UNCHANGED <<data, metrics, report_file, emailed, steps, aggVars>>

\* report_file = generate_pdf_report(metrics) (lines 143-353): c.save() writes
\* the one path report_<date>.pdf, whichever request renders.
RenderOk(r) ==
    /\ pc[r] = "render"
    /\ report_file' = <<metrics[r]>>
    /\ pc' = [pc EXCEPT ![r] = "send"]
    /\ Done(r, "render")
    /\ UNCHANGED <<data, metrics, emailed, response, aggVars>>

\* generate_pdf_report raises before c.save(); the file is left as it was
RenderFail(r) ==
    /\ pc[r] = "render"
    /\ Fail(r)
    /\ UNCHANGED <<data, metrics, report_file, emailed, steps, aggVars>>

\* send_email(report_file) attaches what the path holds now and sends it
\* (lines 368-382)
SendOk(r) ==
    /\ pc[r] = "send"
    /\ report_file # <<>>
    /\ emailed' = [emailed EXCEPT ![r] = report_file]
    /\ pc' = [pc EXCEPT ![r] = "respond"]
    /\ Done(r, "send")
    /\ UNCHANGED <<data, metrics, report_file, response, aggVars>>

\* send_email raises: no password, no file, an SMTP failure (lines 356-358,
\* 373-375, 383-385)
SendFail(r) ==
    /\ pc[r] = "send"
    /\ Fail(r)
    /\ UNCHANGED <<data, metrics, report_file, emailed, steps, aggVars>>

\* the success response (lines 397-402)
Respond(r) ==
    /\ pc[r] = "respond"
    /\ pc' = [pc EXCEPT ![r] = "done"]
    /\ response' = [response EXCEPT ![r] = <<SuccessResponse>>]
    /\ UNCHANGED <<data, metrics, report_file, emailed, steps, aggVars>>

generate_report(r) ==
    \/ Request(r)
    \/ FetchOk(r) \/ FetchFail(r)
    \/ ProcessOk(r) \/ ProcessFail(r)
    \/ RenderOk(r) \/ RenderFail(r)
    \/ SendOk(r) \/ SendFail(r)
    \/ Respond(r)

InitReport ==
    /\ raw_data = <<>> /\ status = "init" /\ branch = "none" /\ df = <<>>
    /\ result = NoResult
    /\ IdleReq

NextReport == \E r \in Requests : generate_report(r)

SpecReport == InitReport /\ [][NextReport]_vars

\* -------------------------------------------------------------------- C10
StepOrder == <<"fetch", "process", "render", "send">>

ReportsOf(d) == {o.result : o \in {q \in process_data(d) : q.status = "ok"}}

\* C10: in one request the steps run in the order fetch, process, render,
\* send, each after the previous one returned; the email carries a report
\* rendered from that request's fetched data; a failure of a step skips the
\* later steps and answers 500 'error'; 'success' is answered only after the
\* send completed.
C10_RequestOrder ==
    \A r \in Requests :
        /\ \E n \in 0..Len(StepOrder) : steps[r] = SubSeq(StepOrder, 1, n)
        /\ emailed[r] # <<>> =>
               /\ Len(steps[r]) = Len(StepOrder)
               /\ emailed[r][1] \in ReportsOf(data[r])
        /\ response[r] = <<ErrorResponse>> =>
               /\ Len(steps[r]) < Len(StepOrder)
               /\ emailed[r] = <<>>
               /\ pc[r] = "done"
        /\ response[r] # <<>> /\ response[r] # <<ErrorResponse>> =>
               /\ response[r] = <<SuccessResponse>>
               /\ steps[r] = StepOrder
               /\ emailed[r] # <<>>

====
